---- MODULE Spec2Model ----
(***************************************************************************)
(* GameHub backend (game_hub/app): the password hashing service, the token *)
(* service, the auth dependency and the route handlers of main.py over the *)
(* relational store (users, events, registrations, feedback).              *)
(*                                                                         *)
(* Seven specifications share the definitions below:                        *)
(*   SpecPwd    get_password_hash / verify_password on bounded passwords   *)
(*   SpecToken  create_access_token / verify_token over a clock            *)
(*   SpecAuth   accounts: register_user, login, validate_token,            *)
(*              create_event, and a user being deactivated in the store    *)
(*   SpecScenario  the end-to-end scenario: create_sample_data or          *)
(*              register_user, then login, then create_event               *)
(*   SpecSignup register_user requests running concurrently                *)
(*   SpecSeq    the handlers of Spec that write events and registrations,  *)
(*              served one request at a time                               *)
(*   Spec       events, registrations and feedback: one session per        *)
(*              request, the steps of concurrent requests interleaved at   *)
(*              statement granularity                                      *)
(***************************************************************************)
EXTENDS Integers, Sequences, FiniteSets, TLC

VARIABLES
    pw,             \* password service run: inputs, library outcomes, results
    tk,             \* token service run: the token at hand and the last verdict
    now,            \* datetime.utcnow(), in minutes
    users,          \* table users: sequence of rows, id = index
    events,         \* table events: set of rows
    registrations,  \* table registrations: set of rows
    feedback,       \* table feedback: set of rows
    next_id,        \* the store's autoincrement counters, per table
    bcrypt_up,      \* whether the bcrypt backend works in this process
    reqs,           \* in-flight requests, one session each: slot -> position
    resp            \* the HTTP response the step just taken produced, if any

vars == <<pw, tk, now, users, events, registrations, feedback, next_id,
          bcrypt_up, reqs, resp>>
storeVars == <<users, events, registrations, feedback, next_id, bcrypt_up, reqs, resp>>
tables == <<users, events, registrations, feedback, next_id>>

Min(a, b) == IF a < b THEN a ELSE b

(***************************************************************************)
(* Passwords.  A password is a run of n copies of one character; the       *)
(* character fixes how many bytes each copy takes in UTF-8.                *)
(***************************************************************************)
MaxPwLen == 74

PwChars == {"a", "euro"}

\* bytes of one character in str.encode('utf-8'): "a" is 1 byte, the euro sign 3
Utf8Width(ch) == IF ch = "a" THEN 1 ELSE 3

Passwords == [ch : PwChars, n : 0..MaxPwLen]

\* len(password.encode('utf-8'))
Utf8Len(p) == p.n * Utf8Width(p.ch)

\* password[:k], a slice by characters
StrSlice(p, k) == [ch |-> p.ch, n |-> Min(p.n, k)]

\* the length bcrypt reads of its input, in bytes
BCRYPT_LIMIT == 72

\* auth.py 40-41 and 63-64: the test is on bytes, the cut is on characters
Truncate(p) == IF Utf8Len(p) > BCRYPT_LIMIT THEN StrSlice(p, BCRYPT_LIMIT) ELSE p

\* hashlib.sha256(password.encode()).hexdigest(): 64 lowercase hex characters,
\* one digest per byte string
Sha256Hex(p) == [fmt |-> "hex64", of |-> p]

\* what bcrypt keys on: the first 72 bytes of the encoded password
BcryptKey(p) == [ch |-> p.ch, bytes |-> Min(Utf8Len(p), BCRYPT_LIMIT)]

\* pwd_context.hash(password) when the library works: "$2b$12$" + salt + digest
BcryptHash(p, salt) == [fmt |-> "bcrypt", salt |-> salt, of |-> BcryptKey(p)]

\* pwd_context.verify(password, hashed) when the library works on a bcrypt hash
BcryptVerify(p, h) == h.fmt = "bcrypt" /\ h.of = BcryptKey(p)

\* auth.py 31: len(hashed_password) == 64 and all characters in 0-9a-f
IsSha256Format(h) == h.fmt = "hex64"

\* the format test of lines 31-36 left out: every hash goes to pwd_context.verify,
\* which raises on one that is not in bcrypt format
MutVerifyWithoutSniffing(plain, hashed, bcrypt_ok) ==
    [bcrypt_called |-> TRUE,
     result |-> IF bcrypt_ok /\ hashed.fmt = "bcrypt"
                THEN BcryptVerify(Truncate(plain), hashed)
                ELSE Sha256Hex(Truncate(plain)) = hashed]

\* auth.py 24-55, one run: the value returned, and whether pwd_context.verify
\* was called.  bcrypt_ok: pwd_context.verify returns (TRUE) or raises (FALSE);
\* it always raises on a hash that is not in bcrypt format.  The except branch
\* reads plain_password after the reassignment of line 41.
VerifyRun(plain, hashed, bcrypt_ok) ==
    IF IsSha256Format(hashed)
    THEN [bcrypt_called |-> FALSE, result |-> Sha256Hex(plain) = hashed]
    ELSE [bcrypt_called |-> TRUE,
          result |-> IF bcrypt_ok /\ hashed.fmt = "bcrypt"
                     THEN BcryptVerify(Truncate(plain), hashed)
                     ELSE Sha256Hex(Truncate(plain)) = hashed]

verify_password(plain, hashed, bcrypt_ok) == VerifyRun(plain, hashed, bcrypt_ok).result

\* auth.py 57-77, one run: the string given to the hashing algorithm
\* (pwd_context.hash at line 67, hashlib.sha256 at line 75) and the value
\* returned.  bcrypt_ok: pwd_context.hash returns (TRUE) or raises (FALSE).
\* The except branch reads password after the reassignment of line 64.
HashRun(password, bcrypt_ok, salt) ==
    [given  |-> Truncate(password),
     hashed |-> IF bcrypt_ok
                THEN BcryptHash(Truncate(password), salt)
                ELSE Sha256Hex(Truncate(password))]

get_password_hash(password, bcrypt_ok, salt) == HashRun(password, bcrypt_ok, salt).hashed

MaxSalt == 2

Salts == 1..MaxSalt

NoPw == [ch |-> "a", n |-> 0]

NoHash == [fmt |-> "none"]

\* a digest of a string that is no password of the input set
ForeignDigest == [fmt |-> "hex64", of |-> [ch |-> "other", n |-> 1]]

\* a stored value that is neither 64 lowercase hex characters nor a bcrypt hash
\* (64 uppercase hex characters, say)
OtherFormat == [fmt |-> "other"]

\* values of users.hashed_password (models.py 12) written before this process
\* ran: digests of whole passwords, bcrypt hashes, and the two above
StoredHashes ==
    {Sha256Hex(p) : p \in Passwords}
    \cup {BcryptHash(p, 1) : p \in {q \in Passwords : q.n \in {0, BCRYPT_LIMIT, MaxPwLen}}}
    \cup {ForeignDigest, OtherFormat}

\* pc: "start"; "hashed" (the hash at hand was made by HashPassword);
\* "stored" (it was read from the store); "verified" / "checked" (the hash made
\* / the hash read has been verified against a candidate)
PwInit ==
    pw = [pc |-> "start", plain |-> NoPw, hash_ok |-> TRUE, given |-> NoPw,
          hashed |-> NoHash, tried |-> NoPw, verify_ok |-> TRUE,
          bcrypt_called |-> FALSE, result |-> FALSE]

\* a caller hashes a password; the library works or raises
HashPassword ==
    /\ pw.pc = "start"
    /\ \E p \in Passwords, ok \in BOOLEAN, s \in Salts :
          pw' = [pw EXCEPT !.pc = "hashed", !.plain = p, !.hash_ok = ok,
                           !.given = HashRun(p, ok, s).given,
                           !.hashed = get_password_hash(p, ok, s)]
    /\ UNCHANGED <<tk, now, storeVars>>

\* authenticate_user reads the hash of a row of the store (auth.py 120-127)
LoadStoredHash ==
    /\ pw.pc = "start"
    /\ \E h \in StoredHashes : pw' = [pw EXCEPT !.pc = "stored", !.hashed = h]
    /\ UNCHANGED <<tk, now, storeVars>>

\* a caller verifies a candidate password against the hash at hand
VerifyPassword ==
    /\ pw.pc \in {"hashed", "stored"}
    /\ \E q \in Passwords, ok \in BOOLEAN :
          pw' = [pw EXCEPT !.pc = IF pw.pc = "hashed" THEN "verified" ELSE "checked",
                           !.tried = q, !.verify_ok = ok,
                           !.bcrypt_called = VerifyRun(q, pw.hashed, ok).bcrypt_called,
                           !.result = verify_password(q, pw.hashed, ok)]
    /\ UNCHANGED <<tk, now, storeVars>>

(***************************************************************************)
(* Tokens.  A JWT is its claims and the key that signed it; time is in     *)
(* minutes.                                                                *)
(***************************************************************************)
SECRET_KEY == "your-secret-key-here"

OtherKey == "another-secret"

DEFAULT_EXPIRE_MINUTES == 15

ACCESS_TOKEN_EXPIRE_MINUTES == 30

Emails == {"organizer@test.com", "player@test.com", "admin@test.com", "org2@test.com"}

\* a claim set without "sub", and one whose "sub" is not a string
NoSub == "<no sub>"

IntSub == "<sub: 42>"

Subjects == Emails \cup {NoSub, IntSub}

\* expires_delta: None (the default) or a timedelta, in minutes
NoDelta == [none |-> TRUE, minutes |-> 0]

Delta(m) == [none |-> FALSE, minutes |-> m]

Malformed == [sub |-> NoSub, exp |-> 0, key |-> "<not a jwt>"]

Unauthorized == [status |-> 401, detail |-> "Could not validate credentials"]

\* "if expires_delta:" is false for None and for timedelta(0)
Truthy(expires_delta) == ~expires_delta.none /\ expires_delta.minutes # 0

\* auth.py 79-87
create_access_token(data, expires_delta, t) ==
    LET expire == IF Truthy(expires_delta)
                  THEN t + expires_delta.minutes
                  ELSE t + DEFAULT_EXPIRE_MINUTES
    IN  [sub |-> data.sub, exp |-> expire, key |-> SECRET_KEY]

\* jwt.decode(token, key, algorithms=[ALGORITHM]) as called at auth.py 91:
\* JWTError for a malformed token, a signature made with another key, or
\* an exp before the current time; the claims otherwise
JwtDecode(token, key, t) ==
    IF token = Malformed \/ token.key # key THEN [ok |-> FALSE]
    ELSE IF token.exp < t THEN [ok |-> FALSE]
    ELSE [ok |-> TRUE, sub |-> token.sub]

\* jwt.get_unverified_claims in place of jwt.decode: no signature check
MutVerifyTokenUnverified(token, t) ==
    IF token = Malformed \/ token.exp < t THEN Unauthorized
    ELSE IF token.sub \notin Emails THEN Unauthorized
    ELSE [status |-> 200, email |-> token.sub]

\* auth.py 89-104: TokenData(email) or the 401
verify_token(token, t) ==
    LET payload == JwtDecode(token, SECRET_KEY, t) IN
    IF ~payload.ok THEN Unauthorized
    ELSE IF payload.sub \notin Emails THEN Unauthorized
    ELSE [status |-> 200, email |-> payload.sub]

MaxTime == 16

Deltas == {NoDelta} \cup {Delta(m) : m \in {-1, 0, 1, ACCESS_TOKEN_EXPIRE_MINUTES}}

ForgedExps == {-1, 0, 1, 20}

TkInit ==
    tk = [pc |-> "none", tok |-> Malformed, origin |-> "none", ttl |-> NoDelta,
          issued_at |-> 0, result |-> Unauthorized]

\* the server issues a token for some claims and some expires_delta
IssueToken ==
    /\ \E sub \in Subjects, d \in Deltas :
          tk' = [pc |-> "held", tok |-> create_access_token([sub |-> sub], d, now),
                 origin |-> "issued", ttl |-> d, issued_at |-> now,
                 result |-> Unauthorized]
    /\ UNCHANGED <<pw, now, storeVars>>

\* a client builds a token itself: signed with a key of its own, or not a JWT
ForgeToken ==
    /\ \E sub \in Subjects, e \in ForgedExps, bad \in BOOLEAN :
          tk' = [pc |-> "held",
                 tok |-> IF bad THEN Malformed ELSE [sub |-> sub, exp |-> now + e, key |-> OtherKey],
                 origin |-> "forged", ttl |-> NoDelta, issued_at |-> now,
                 result |-> Unauthorized]
    /\ UNCHANGED <<pw, now, storeVars>>

\* the clock advances
Tick ==
    /\ now < MaxTime
    /\ now' = now + 1
    /\ UNCHANGED <<pw, tk, storeVars>>

\* the token at hand is presented as the bearer credential
VerifyToken ==
    /\ tk.pc # "none"
    /\ tk' = [tk EXCEPT !.pc = "verified", !.result = verify_token(tk.tok, now)]
    /\ UNCHANGED <<pw, now, storeVars>>


(***************************************************************************)
(* The store and the route handlers of main.py.                            *)
(***************************************************************************)
MaxUsers == 2

MaxEvents == 1

MaxCap == 1

MaxRegs == 2

MaxFeedback == 1

MaxInflight == 2

Slots == 1..MaxInflight

Idle == [op |-> "idle", pc |-> "idle", user_id |-> 0, event_id |-> 0]

\* A response: status, detail, headers and body are what the client receives;
\* op (the handler) and caller (the id of the user row the handler worked for,
\* 0 when it found none) are kept beside it for the properties.
NoResp == [op |-> "none", caller |-> 0, status |-> 0, detail |-> "", headers |-> "", body |-> <<>>]

Response(op, caller, status, detail) ==
    [op |-> op, caller |-> caller, status |-> status, detail |-> detail,
     headers |-> "", body |-> <<>>]

Ok(op, caller, body) ==
    [op |-> op, caller |-> caller, status |-> 200, detail |-> "", headers |-> "", body |-> body]

Observable(r) == [status |-> r.status, detail |-> r.detail, headers |-> r.headers, body |-> r.body]

\* "password123" (main.py 236) and another password, both short ASCII
Password123 == [ch |-> "a", n |-> 11]

WrongPassword == [ch |-> "a", n |-> 8]

\* a password one byte over what bcrypt reads (UserCreate.password is any str)
LongPassword == [ch |-> "a", n |-> BCRYPT_LIMIT + 1]

LoginPasswords == {Password123, WrongPassword, LongPassword}

\* UserCreate bodies sent to register_user: the role is a free string
UserInputs ==
    { [email |-> "organizer@test.com", role |-> "organizer", password |-> Password123],
      [email |-> "player@test.com",    role |-> "player",    password |-> Password123],
      [email |-> "admin@test.com",     role |-> "admin",     password |-> Password123],
      [email |-> "org2@test.com",      role |-> "organizer", password |-> Password123] }

\* the bodies that make the organizer of the end-to-end scenario, with a short
\* and with a long password, and a player
ScenarioInputs ==
    { [email |-> "organizer@test.com", role |-> "organizer", password |-> Password123],
      [email |-> "organizer@test.com", role |-> "organizer", password |-> LongPassword],
      [email |-> "player@test.com",    role |-> "player",    password |-> Password123] }

\* bearer tokens sent with requests: one as login issues it at time 0 for each
\* email, an expired one, one signed with another key, one without "sub"
TokenInputs ==
    { create_access_token([sub |-> e], Delta(ACCESS_TOKEN_EXPIRE_MINUTES), 0) : e \in Emails }
    \cup { create_access_token([sub |-> "organizer@test.com"], Delta(-1), 0),
           [sub |-> "organizer@test.com", exp |-> ACCESS_TOKEN_EXPIRE_MINUTES, key |-> OtherKey],
           create_access_token([sub |-> NoSub], NoDelta, 0) }

EventIds == 1..MaxEvents

Caps == 0..MaxCap

\* db.query(models.User).filter(models.User.email == email).first()
UserIdsByEmail(email) == {i \in DOMAIN users : users[i].email = email}

FirstId(ids) == CHOOSE i \in ids : \A j \in ids : i <= j

\* auth.py 106-113, with its dependency verify_token: the user's id or the 401
get_current_user(token, t) ==
    LET token_data == verify_token(token, t) IN
    IF token_data.status # 200 THEN Unauthorized
    ELSE LET ids == UserIdsByEmail(token_data.email) IN
         IF ids = {} THEN Unauthorized
         ELSE [status |-> 200, id |-> FirstId(ids)]

\* auth.py 115-132: the user's id, or 0 for False
authenticate_user(email, password) ==
    LET ids == UserIdsByEmail(email) IN
    IF ids = {} THEN 0
    ELSE IF ~verify_password(password, users[FirstId(ids)].hashed_password, bcrypt_up) THEN 0
    ELSE FirstId(ids)

\* db.query(models.Event).filter(models.Event.id == event_id).first()
EventRows(event_id) == {e \in events : e.id = event_id}

RegistrationsOf(event_id) == {r \in registrations : r.event_id = event_id}

FeedbackOf(event_id) == {f \in feedback : f.event_id = event_id}

Answer(response) == resp' = response

\* a users row as register_user (main.py 54-60) and create_sample_data
\* (main.py 233-238, 243-248) build it
UserRow(email, role, password) ==
    [email |-> email, role |-> role, is_active |-> TRUE,
     hashed_password |-> get_password_hash(password, bcrypt_up, 1)]

\* main.py 50-64, for a request body drawn from the given set
RegisterUserFrom(inputs) ==
    \E u \in inputs :
       /\ IF UserIdsByEmail(u.email) # {}
          THEN /\ Answer(Response("register_user", 0, 400, "Email already registered"))
               /\ UNCHANGED users
          ELSE /\ Len(users) < MaxUsers
               /\ users' = Append(users, UserRow(u.email, u.role, u.password))
               /\ Answer(Ok("register_user", 0, Len(users) + 1))
       /\ UNCHANGED <<pw, tk, now, events, registrations, feedback, next_id, bcrypt_up, reqs>>

RegisterUser == RegisterUserFrom(UserInputs)

\* register_user as the end-to-end scenario calls it
RegisterScenarioUser == RegisterUserFrom(ScenarioInputs)

\* the store's owner clears a user's is_active flag (models.py 14); no handler
\* of main.py writes the column
DeactivateUser ==
    \E i \in DOMAIN users :
       /\ users[i].is_active
       /\ users' = [users EXCEPT ![i].is_active = FALSE]
       /\ Answer(NoResp)
       /\ UNCHANGED <<pw, tk, now, events, registrations, feedback, next_id, bcrypt_up, reqs>>

\* a failure that names the field that was wrong
MutLoginFailureTellsWhich(email) ==
    [op |-> "login",
     caller |-> IF UserIdsByEmail(email) = {} THEN 0 ELSE FirstId(UserIdsByEmail(email)),
     status |-> IF UserIdsByEmail(email) = {} THEN 404 ELSE 401,
     detail |-> IF UserIdsByEmail(email) = {} THEN "User not found" ELSE "Incorrect password",
     headers |-> "WWW-Authenticate: Bearer", body |-> <<>>]

\* main.py 71-75; the caller field is the row the email matched, 0 for none
LoginFailure(email) ==
    [op |-> "login",
     caller |-> IF UserIdsByEmail(email) = {} THEN 0 ELSE FirstId(UserIdsByEmail(email)),
     status |-> 401, detail |-> "Incorrect email or password",
     headers |-> "WWW-Authenticate: Bearer", body |-> <<>>]

\* main.py 67-87: the response to a login with this email and password
LoginResponse(email, password) ==
    LET id == authenticate_user(email, password) IN
    IF id = 0
    THEN LoginFailure(email)
    ELSE Ok("login", id,
            [access_token |-> create_access_token([sub |-> users[id].email],
                                  Delta(ACCESS_TOKEN_EXPIRE_MINUTES), now),
             id |-> id, email |-> users[id].email, role |-> users[id].role])

Login ==
    \E email \in Emails, password \in LoginPasswords :
       /\ Answer(LoginResponse(email, password))
       /\ UNCHANGED <<pw, tk, now, tables, bcrypt_up, reqs>>

\* main.py 90-100
ValidateToken ==
    \E token \in TokenInputs :
       LET cu == get_current_user(token, now) IN
       /\ Answer(IF cu.status # 200
                 THEN Response("validate_token", 0, 401, cu.detail)
                 ELSE Ok("validate_token", cu.id, [valid |-> TRUE, id |-> cu.id]))
       /\ UNCHANGED <<pw, tk, now, tables, bcrypt_up, reqs>>

\* the role test left out
MutAnyRoleCreates(role) == TRUE

\* main.py 152: current_user.role in ["organizer", "admin"]
CanCreateEvent(role) == role \in {"organizer", "admin"}

\* main.py 147-159.  capacity0 keeps the max_participants the event was created
\* with; the handlers never read it.
CreateEvent ==
    \E token \in TokenInputs, cap \in Caps :
       LET cu == get_current_user(token, now) IN
       /\ IF cu.status # 200
          THEN /\ Answer(Response("create_event", 0, 401, cu.detail))
               /\ UNCHANGED <<events, next_id>>
          ELSE IF ~CanCreateEvent(users[cu.id].role)
          THEN /\ Answer(Response("create_event", cu.id, 403, "Only organizers can create events"))
               /\ UNCHANGED <<events, next_id>>
          ELSE /\ next_id.event <= MaxEvents
               /\ events' = events \cup
                      {[id |-> next_id.event, organizer_id |-> cu.id,
                        max_participants |-> cap, capacity0 |-> cap]}
               /\ next_id' = [next_id EXCEPT !.event = @ + 1]
               /\ Answer(Ok("create_event", cu.id,
                            [id |-> next_id.event, organizer_id |-> cu.id]))
       /\ UNCHANGED <<pw, tk, now, users, registrations, feedback, bcrypt_up, reqs>>

\* main.py 260
SAMPLE_MAX_PARTICIPANTS == 50

\* main.py 227-271: three commits.  With organizer@test.com absent and
\* player@test.com present, the organizer row is committed and the second
\* commit breaks the unique constraint on users.email (models.py 11): the
\* request ends in a 500 with the organizer row kept.
CreateSampleData ==
    LET op  == "create_sample_data"
        org == UserRow("organizer@test.com", "organizer", Password123)
        pl  == UserRow("player@test.com", "player", Password123)
    IN
    /\ IF UserIdsByEmail("organizer@test.com") # {}
       THEN /\ Answer(Ok(op, 0, "Sample data already exists"))
            /\ UNCHANGED <<users, events, next_id>>
       ELSE IF UserIdsByEmail("player@test.com") # {}
       THEN /\ Len(users) < MaxUsers
            /\ users' = Append(users, org)
            /\ Answer(Response(op, 0, 500, "Internal Server Error"))
            /\ UNCHANGED <<events, next_id>>
       ELSE /\ Len(users) + 1 < MaxUsers
            /\ next_id.event <= MaxEvents
            /\ users' = Append(Append(users, org), pl)
            /\ events' = events \cup
                   {[id |-> next_id.event, organizer_id |-> Len(users) + 1,
                     max_participants |-> SAMPLE_MAX_PARTICIPANTS,
                     capacity0 |-> SAMPLE_MAX_PARTICIPANTS]}
            /\ next_id' = [next_id EXCEPT !.event = @ + 1]
            /\ Answer(Ok(op, 0, "Sample data created successfully"))
    /\ UNCHANGED <<pw, tk, now, registrations, feedback, bcrypt_up, reqs>>

\* a step of the request in slot s: its position moves on, or the slot is freed
\* with the response
Goto(s, position) ==
    /\ reqs' = [reqs EXCEPT ![s] = position]
    /\ Answer(NoResp)

Reply(s, response) ==
    /\ reqs' = [reqs EXCEPT ![s] = Idle]
    /\ Answer(response)

InFlight(op) == Cardinality({s \in Slots : reqs[s].op = op})

\* main.py 51-53, a register_user request in a session of its own: the email is
\* looked up and the request refused if a row has it
RegisterUserStart(s) ==
    \E u \in UserInputs :
       LET op == "register_user" IN
       /\ reqs[s] = Idle
       /\ Len(users) + InFlight(op) < MaxUsers
       /\ IF UserIdsByEmail(u.email) # {}
          THEN Reply(s, Response(op, 0, 400, "Email already registered"))
          ELSE Goto(s, [op |-> op, pc |-> "commit", user_id |-> 0, event_id |-> 0,
                        user |-> u])
       /\ UNCHANGED <<pw, tk, now, tables, bcrypt_up>>

\* main.py 54-64: the row is built, added and committed.  users.email is
\* declared unique (models.py 11), so the commit raises IntegrityError when a row
\* with the email has been committed since the lookup; nothing catches it and
\* the request ends in a 500.
RegisterUserCommit(s) ==
    LET r == reqs[s] IN
    /\ r.op = "register_user" /\ r.pc = "commit"
    /\ IF UserIdsByEmail(r.user.email) # {}
       THEN /\ Reply(s, Response(r.op, 0, 500, "Internal Server Error"))
            /\ UNCHANGED users
       ELSE /\ users' = Append(users, UserRow(r.user.email, r.user.role, r.user.password))
            /\ Reply(s, Ok(r.op, 0, Len(users) + 1))
    /\ UNCHANGED <<pw, tk, now, events, registrations, feedback, next_id, bcrypt_up>>

\* main.py 167-178: the dependency resolves the user, then the event is read
\* and its capacity tested
RegisterStart(s) ==
    \E token \in TokenInputs, event_id \in EventIds :
       LET cu == get_current_user(token, now)
           op == "register_for_event"
       IN
       /\ reqs[s] = Idle
       /\ next_id.registration + InFlight(op) <= MaxRegs
       /\ IF cu.status # 200
          THEN Reply(s, Response(op, 0, 401, cu.detail))
          ELSE IF EventRows(event_id) = {}
          THEN Reply(s, Response(op, cu.id, 404, "Event not found"))
          ELSE IF \E e \in EventRows(event_id) : e.max_participants <= 0
          THEN Reply(s, Response(op, cu.id, 400, "No slots available for this event"))
          ELSE Goto(s, [op |-> op, pc |-> "existing_reg",
                        user_id |-> cu.id, event_id |-> event_id])
       /\ UNCHANGED <<pw, tk, now, tables, bcrypt_up>>

\* main.py 180-186: the duplicate test
RegisterCheckExisting(s) ==
    LET r == reqs[s] IN
    /\ r.op = "register_for_event" /\ r.pc = "existing_reg"
    /\ IF \E x \in registrations :
             x.user_id = r.user_id /\ x.event_id = r.event_id /\ x.status = "registered"
       THEN Reply(s, Response(r.op, r.user_id, 400, "Already registered for this event"))
       ELSE Goto(s, [r EXCEPT !.pc = "commit"])
    /\ UNCHANGED <<pw, tk, now, tables, bcrypt_up>>

\* the update of lines 195-197 left out
MutNoDecrement(event_id) == events

\* UPDATE events SET max_participants = max_participants - 1 WHERE id = :id
DecrementCapacity(event_id) ==
    {IF e.id = event_id THEN [e EXCEPT !.max_participants = @ - 1] ELSE e : e \in events}

\* main.py 188-200: the row is inserted, the capacity decremented in the store
\* and the session committed.  When the event row is gone by now, the insert
\* either stands (the store does not enforce the foreign key) or raises; where
\* it stands, the response model's required event field (schemas.py 108-113)
\* cannot be filled and the answer is a 500 after the commit.
RegisterCommit(s) ==
    LET r == reqs[s]
        row == [id |-> next_id.registration, user_id |-> r.user_id,
                event_id |-> r.event_id, status |-> "registered"]
    IN
    /\ r.op = "register_for_event" /\ r.pc = "commit"
    /\ \E fk_enforced \in BOOLEAN :
          IF EventRows(r.event_id) = {} /\ fk_enforced
          THEN /\ Reply(s, Response(r.op, r.user_id, 500, "Internal Server Error"))
               /\ UNCHANGED <<events, registrations, next_id>>
          ELSE /\ registrations' = registrations \cup {row}
               /\ events' = DecrementCapacity(r.event_id)
               /\ next_id' = [next_id EXCEPT !.registration = @ + 1]
               /\ Reply(s, IF EventRows(r.event_id) = {}
                           THEN Response(r.op, r.user_id, 500, "Internal Server Error")
                           ELSE Ok(r.op, r.user_id, row))
    /\ UNCHANGED <<pw, tk, now, users, feedback, bcrypt_up>>

\* main.py 209-213
FeedbackStart(s) ==
    \E token \in TokenInputs, event_id \in EventIds :
       LET cu == get_current_user(token, now)
           op == "add_feedback"
       IN
       /\ reqs[s] = Idle
       /\ next_id.feedback + InFlight(op) <= MaxFeedback
       /\ IF cu.status # 200
          THEN Reply(s, Response(op, 0, 401, cu.detail))
          ELSE IF EventRows(event_id) = {}
          THEN Reply(s, Response(op, cu.id, 404, "Event not found"))
          ELSE Goto(s, [op |-> op, pc |-> "commit",
                        user_id |-> cu.id, event_id |-> event_id])
       /\ UNCHANGED <<pw, tk, now, tables, bcrypt_up>>

\* main.py 215-224
FeedbackCommit(s) ==
    LET r == reqs[s]
        row == [id |-> next_id.feedback, user_id |-> r.user_id, event_id |-> r.event_id]
    IN
    /\ r.op = "add_feedback" /\ r.pc = "commit"
    /\ \E fk_enforced \in BOOLEAN :
          IF EventRows(r.event_id) = {} /\ fk_enforced
          THEN /\ Reply(s, Response(r.op, r.user_id, 500, "Internal Server Error"))
               /\ UNCHANGED <<feedback, next_id>>
          ELSE /\ feedback' = feedback \cup {row}
               /\ next_id' = [next_id EXCEPT !.feedback = @ + 1]
               /\ Reply(s, Ok(r.op, r.user_id, row))
    /\ UNCHANGED <<pw, tk, now, users, events, registrations, bcrypt_up>>

\* the ownership test of line 288 left out
MutAnyOrganizerDeletes(role, user_id, organizer_id) == TRUE

\* main.py 288: current_user.role != "admin" and event.organizer_id != current_user.id
OwnsOrAdmin(role, user_id, organizer_id) == role = "admin" \/ organizer_id = user_id

\* main.py 279-289: the 403, the 404, or NoResp when the try block is to run
delete_event_checks(user_id, event_id) ==
    LET op == "delete_event" IN
    IF users[user_id].role \notin {"organizer", "admin"}
    THEN Response(op, user_id, 403, "Only organizers can delete events")
    ELSE IF EventRows(event_id) = {}
    THEN Response(op, user_id, 404, "Event not found")
    ELSE IF \E e \in EventRows(event_id) :
               ~OwnsOrAdmin(users[user_id].role, user_id, e.organizer_id)
    THEN Response(op, user_id, 403, "You can only delete your own events")
    ELSE NoResp

\* main.py 272-289
DeleteStart(s) ==
    \E token \in TokenInputs, event_id \in EventIds :
       LET cu == get_current_user(token, now) IN
       /\ reqs[s] = Idle
       /\ IF cu.status # 200
          THEN Reply(s, Response("delete_event", 0, 401, cu.detail))
          ELSE IF delete_event_checks(cu.id, event_id) # NoResp
          THEN Reply(s, delete_event_checks(cu.id, event_id))
          ELSE Goto(s, [op |-> "delete_event", pc |-> "try",
                        user_id |-> cu.id, event_id |-> event_id])
       /\ UNCHANGED <<pw, tk, now, tables, bcrypt_up>>

\* the statements of the try block (main.py 292, 293, 296, 297), and those
\* that have run when the given one raises ("none": none raises)
TryStatements == {"registrations", "feedback", "event", "commit"}

RanBefore(stmt) ==
    CASE stmt = "registrations" -> {}
      [] stmt = "feedback"      -> {"registrations"}
      [] stmt = "event"         -> {"registrations", "feedback"}
      [] OTHER                  -> {"registrations", "feedback", "event"}

\* the except branch left out on a connection in autocommit mode: what the
\* statements did stays
MutNoRollback(committed, pending) == pending

\* main.py 302, db.rollback(): the table is as last committed, whatever the
\* session had pending
Rollback(committed, pending) == committed

\* main.py 291-303: the try block in one transaction.  Any of its statements
\* may raise (the store fails); the except branch rolls back and answers 500.
\* When the event row read at line 283 has been deleted meanwhile, the DELETE
\* of line 296 matches no row and the other statements act as usual.
DeleteCommit(s) ==
    LET r == reqs[s]
        Pending(stmt, table, rows, ran) == IF stmt \in ran THEN table \ rows ELSE table
    IN
    /\ r.op = "delete_event" /\ r.pc = "try"
    /\ \E raises \in TryStatements \cup {"none"} :
          LET ran == RanBefore(raises)
              regs == Pending("registrations", registrations, RegistrationsOf(r.event_id), ran)
              fb   == Pending("feedback", feedback, FeedbackOf(r.event_id), ran)
              ev   == Pending("event", events, EventRows(r.event_id), ran)
          IN
          IF raises # "none"
          THEN /\ registrations' = Rollback(registrations, regs)
               /\ feedback' = Rollback(feedback, fb)
               /\ events' = Rollback(events, ev)
               /\ Reply(s, Response(r.op, r.user_id, 500, "Failed to delete event"))
          ELSE /\ registrations' = regs
               /\ feedback' = fb
               /\ events' = ev
               /\ Reply(s, Ok(r.op, r.user_id, [event_id |-> r.event_id]))
    /\ UNCHANGED <<pw, tk, now, users, next_id, bcrypt_up>>

\* main.py 107-115
get_event_details(event_id) ==
    IF EventRows(event_id) = {}
    THEN Response("get_event_details", 0, 404, "Event not found")
    ELSE Ok("get_event_details", 0, EventRows(event_id))

\* main.py 118-130
get_event_registrations(event_id) ==
    Ok("get_event_registrations", 0, RegistrationsOf(event_id))

\* main.py 133-144
get_event_feedback(event_id) == Ok("get_event_feedback", 0, FeedbackOf(event_id))

GetEvent ==
    \E event_id \in EventIds :
       /\ \/ Answer(get_event_details(event_id))
          \/ Answer(get_event_registrations(event_id))
          \/ Answer(get_event_feedback(event_id))
       /\ UNCHANGED <<pw, tk, now, tables, bcrypt_up, reqs>>

StoreInit ==
    /\ users = <<>>
    /\ events = {}
    /\ registrations = {}
    /\ feedback = {}
    /\ next_id = [event |-> 1, registration |-> 1, feedback |-> 1]
    /\ reqs = [s \in Slots |-> Idle]
    /\ resp = NoResp

Init == PwInit /\ TkInit /\ now = 0 /\ bcrypt_up = TRUE /\ StoreInit

Next ==
    \/ RegisterUser
    \/ CreateEvent
    \/ GetEvent
    \/ \E s \in Slots :
          \/ RegisterStart(s)
          \/ RegisterCheckExisting(s)
          \/ RegisterCommit(s)
          \/ FeedbackStart(s)
          \/ FeedbackCommit(s)
          \/ DeleteStart(s)
          \/ DeleteCommit(s)

Spec == Init /\ [][Next]_vars

InitAuth == PwInit /\ TkInit /\ now = 0 /\ bcrypt_up \in BOOLEAN /\ StoreInit

NextAuth ==
    \/ RegisterUser
    \/ DeactivateUser
    \/ Login
    \/ ValidateToken
    \/ CreateEvent

SpecAuth == InitAuth /\ [][NextAuth]_vars

(***************************************************************************)
(* The end-to-end scenario of test_all_api.py: the organizer is made by    *)
(* create_sample_data or register_user, logs in and creates an event.      *)
(***************************************************************************)
NextScenario ==
    \/ CreateSampleData
    \/ RegisterScenarioUser
    \/ Login
    \/ CreateEvent

SpecScenario == InitAuth /\ [][NextScenario]_vars

(***************************************************************************)
(* Requests served one at a time: a request starts only when no other is   *)
(* in flight, and runs to its response before the next starts.            *)
(***************************************************************************)
NoneInFlight == \A s \in Slots : reqs[s] = Idle

\* the slot every request is served in, the others staying idle
Worker == CHOOSE s \in Slots : TRUE

NextSeq ==
    \/ NoneInFlight /\ RegisterUser
    \/ NoneInFlight /\ CreateSampleData
    \/ NoneInFlight /\ CreateEvent
    \/ RegisterStart(Worker)
    \/ RegisterCheckExisting(Worker)
    \/ RegisterCommit(Worker)
    \/ DeleteStart(Worker)
    \/ DeleteCommit(Worker)

SpecSeq == Init /\ [][NextSeq]_vars

(***************************************************************************)
(* Concurrent sign-ups: register_user requests, their steps interleaved.   *)
(***************************************************************************)
InitSignup == PwInit /\ TkInit /\ now = 0 /\ bcrypt_up \in BOOLEAN /\ StoreInit

NextSignup == \E s \in Slots : RegisterUserStart(s) \/ RegisterUserCommit(s)

SpecSignup == InitSignup /\ [][NextSignup]_vars

(***************************************************************************)
(* The password service and the token service as state machines.           *)
(***************************************************************************)
InitPwd == PwInit /\ TkInit /\ now = 0 /\ bcrypt_up = TRUE /\ StoreInit

NextPwd == HashPassword \/ LoadStoredHash \/ VerifyPassword

SpecPwd == InitPwd /\ [][NextPwd]_vars

InitToken == PwInit /\ TkInit /\ now = 0 /\ bcrypt_up = TRUE /\ StoreInit

NextToken == IssueToken \/ ForgeToken \/ Tick \/ VerifyToken

SpecToken == InitToken /\ [][NextToken]_vars

(***************************************************************************)
(* Claims on the accounts and the auth dependency (SpecAuth)               *)
(***************************************************************************)

\* C5: every failed login is answered with the same observable response (401,
\* "Incorrect email or password", the WWW-Authenticate header, no body),
\* whether the email matched no row or the password did not match the stored
\* hash; and a login, failed or not, leaves every table as it was.
C5_LoginFailureUniform ==
    /\ [](\A email \in Emails, password \in LoginPasswords :
            LoginResponse(email, password).status # 200
               => Observable(LoginResponse(email, password)) =
                     [status |-> 401, detail |-> "Incorrect email or password",
                      headers |-> "WWW-Authenticate: Bearer", body |-> <<>>])
    /\ []((resp.op = "login" /\ resp.status # 200)
            => Observable(resp) =
                  [status |-> 401, detail |-> "Incorrect email or password",
                   headers |-> "WWW-Authenticate: Bearer", body |-> <<>>])
    /\ [][resp'.op = "login" => UNCHANGED tables]_vars

\* C5 witness: a login was refused for a wrong password (the email matched a
\* row) while another email of the input set matches no row and is refused too
C5_Witness ==
    /\ resp.op = "login" /\ resp.status = 401 /\ resp.caller > 0
    /\ \E email \in Emails :
          UserIdsByEmail(email) = {} /\ LoginResponse(email, Password123).status = 401

\* C6 (as claimed): a protected handler works only for an active user: when a
\* response of validate_token or create_event names a resolved caller, that
\* user's is_active flag is set (a token whose subject is an inactive user, or no
\* user, is answered 401 before the handler runs).
C6_OnlyActiveUsersResolved ==
    (resp.op \in {"validate_token", "create_event"} /\ resp.caller > 0)
        => users[resp.caller].is_active

\* C7: create_event by a resolved caller whose role is neither organizer nor
\* admin is answered 403; a 403 from create_event leaves the events table as it
\* was; and every stored event's organizer_id is a user with role organizer or
\* admin.
C7_OnlyOrganizersCreate ==
    /\ []((resp.op = "create_event" /\ resp.caller > 0
             /\ users[resp.caller].role \notin {"organizer", "admin"})
            => resp.status = 403)
    /\ [](\A e \in events : users[e.organizer_id].role \in {"organizer", "admin"})
    /\ [][(resp'.op = "create_event" /\ resp'.status = 403) => events' = events]_vars

\* C7 witness: a player asked to create an event and got the 403
C7_Witness ==
    /\ resp.op = "create_event" /\ resp.status = 403
    /\ resp.caller > 0 /\ users[resp.caller].role = "player"

\* C13 (as claimed), under SpecScenario: once organizer@test.com exists with
\* role organizer, made by create_sample_data or register_user with password P,
\* a login with that email and P is answered 200 with a token; that token
\* resolves to that user
\* and passes the role test of create_event; and a create_event answered for
\* that user is a 200 whose event is stored with organizer_id the user's id.
C13_OrganizerLoginThenCreateEvent ==
    /\ [](\A i \in DOMAIN users, u \in ScenarioInputs :
            (/\ u.email = "organizer@test.com" /\ u.role = "organizer"
             /\ users[i] = [UserRow(u.email, u.role, u.password)
                               EXCEPT !.is_active = users[i].is_active])
            => LET r == LoginResponse(u.email, u.password) IN
               /\ r.status = 200
               /\ get_current_user(r.body.access_token, now) = [status |-> 200, id |-> i]
               /\ CanCreateEvent(users[i].role))
    /\ [][(/\ resp'.op = "create_event" /\ resp'.caller > 0
            /\ users[resp'.caller].email = "organizer@test.com"
            /\ users[resp'.caller].role = "organizer")
           => /\ resp'.status = 200
              /\ resp'.body.organizer_id = resp'.caller
              /\ \E e \in events' \ events :
                    e.id = resp'.body.id /\ e.organizer_id = resp'.caller]_vars

(***************************************************************************)
(* Claims on concurrent sign-ups (SpecSignup)                              *)
(***************************************************************************)

\* C14 (as claimed): no two user rows share an email, and every register_user
\* request that is refused, two requests for the same new email interleaved
\* included, is answered 400 "Email already registered" and leaves the users
\* table as it was.
C14_DuplicateEmailAnswered400 ==
    /\ [](\A i \in DOMAIN users, j \in DOMAIN users :
            users[i].email = users[j].email => i = j)
    /\ [][(resp'.op = "register_user" /\ resp'.status # 200)
             => /\ resp'.status = 400
                /\ resp'.detail = "Email already registered"
                /\ users' = users]_vars

(***************************************************************************)
(* Claims on events, registrations and feedback (Spec)                     *)
(***************************************************************************)

\* C1 (as claimed): for an event created with capacity N, under any
\* interleaving of register_for_event requests by distinct users, at most N of
\* them succeed: the event never holds registration rows of more than N users.
C1_AtMostCapacityRegistrations ==
    \A e \in events :
       Cardinality({r.user_id : r \in RegistrationsOf(e.id)}) <= e.capacity0

\* C4 (as claimed): no user holds more than one registration row with status
\* 'registered' for the same event, in any reachable state.
C4_OneRegistrationPerUserEvent ==
    \A r1 \in registrations, r2 \in registrations :
       (r1.user_id = r2.user_id /\ r1.event_id = r2.event_id
          /\ r1.status = "registered" /\ r2.status = "registered") => r1 = r2

\* C8 (as claimed): once delete_event has removed an event (its id was handed
\* out and its row is gone), get_event_details answers 404 and
\* get_event_registrations and get_event_feedback answer empty lists, in every
\* later state, whatever requests were in flight during the delete.
C8_DeleteCascades ==
    \A event_id \in 1..(next_id.event - 1) :
       EventRows(event_id) = {} =>
          /\ get_event_details(event_id).status = 404
          /\ get_event_registrations(event_id).body = {}
          /\ get_event_feedback(event_id).body = {}

\* C9: an event row is removed only by a delete_event request of a user who is
\* admin, or is organizer and the event's organizer_id; a resolved caller who is
\* neither, asking to delete an existing event, gets 403; and a 403 from
\* delete_event leaves events, registrations and feedback as they were.
C9_DeleteOnlyByAuthorized ==
    /\ [][\A e \in events : (\A x \in events' : x.id # e.id) =>
            \E s \in Slots :
               /\ reqs[s].op = "delete_event" /\ reqs'[s] = Idle
               /\ reqs[s].event_id = e.id
               /\ \/ users[reqs[s].user_id].role = "admin"
                  \/ /\ users[reqs[s].user_id].role = "organizer"
                     /\ e.organizer_id = reqs[s].user_id]_vars
    /\ [](\A i \in DOMAIN users, e \in events :
            ~(\/ users[i].role = "admin"
              \/ users[i].role = "organizer" /\ e.organizer_id = i)
               => delete_event_checks(i, e.id).status = 403)
    /\ [][(resp'.op = "delete_event" /\ resp'.status = 403)
             => UNCHANGED <<events, registrations, feedback>>]_vars

\* C15: a delete_event request that reached its try block is answered 200 or
\* 500 "Failed to delete event"; when it is answered 500 (a statement of the
\* block or the commit raised), the events, registrations and feedback tables
\* are after the request what they were before it: nothing of the event is
\* lost; and a 200 is given only with the event's row, registrations and
\* feedback all gone.
C15_DeleteRollsBackOnFailure ==
    /\ [][\A s \in Slots :
            (reqs[s].op = "delete_event" /\ reqs[s].pc = "try" /\ reqs'[s] = Idle)
            => \/ /\ resp'.status = 500 /\ resp'.detail = "Failed to delete event"
                  /\ UNCHANGED <<events, registrations, feedback>>
               \/ /\ resp'.status = 200
                  /\ EventRows(reqs[s].event_id)' = {}
                  /\ RegistrationsOf(reqs[s].event_id)' = {}
                  /\ FeedbackOf(reqs[s].event_id)' = {}]_vars
    /\ [][(resp'.op = "delete_event" /\ resp'.status = 500)
             => UNCHANGED <<events, registrations, feedback>>]_vars

\* C15 witness: a delete was answered 500 and the event is there with a
\* registration and a feedback row, which the statements before the failing one
\* had deleted in the session
C15_Witness ==
    /\ resp.op = "delete_event" /\ resp.status = 500
    /\ \E e \in events : RegistrationsOf(e.id) # {} /\ FeedbackOf(e.id) # {}

\* C9 witness: an organizer asked to delete an event of another organizer, which
\* has a registration, and got the 403
C9_Witness ==
    /\ resp.op = "delete_event" /\ resp.status = 403
    /\ resp.detail = "You can only delete your own events"
    /\ users[resp.caller].role = "organizer"
    /\ \E e \in events : e.organizer_id # resp.caller /\ RegistrationsOf(e.id) # {}

(***************************************************************************)
(* Claims on requests served one at a time (SpecSeq)                       *)
(***************************************************************************)

\* C16: with requests served one at a time, every existing event created with
\* max_participants = N >= 0 has 0 <= max_participants and max_participants +
\* (number of its registration rows) = N in every reachable state; a
\* register_for_event answered 200 has inserted exactly one row, for that event,
\* and lowered that event's max_participants by exactly 1, every other event
\* and row left alone; one answered 404 or 400 has changed neither table.
C16_CapacityConserved ==
    /\ [](\A e \in events :
            /\ 0 <= e.max_participants
            /\ e.max_participants + Cardinality(RegistrationsOf(e.id)) = e.capacity0)
    /\ [][(resp'.op = "register_for_event" /\ resp'.status = 200)
             => \E row \in registrations' \ registrations, e \in events :
                   /\ registrations' = registrations \cup {row}
                   /\ row.event_id = e.id
                   /\ events' = (events \ {e})
                          \cup {[e EXCEPT !.max_participants = e.max_participants - 1]}]_vars
    /\ [][(resp'.op = "register_for_event" /\ resp'.status \in {400, 404})
             => UNCHANGED <<events, registrations>>]_vars
    /\ [](resp.op = "register_for_event" => resp.status \in {200, 400, 401, 404})

\* C16 witness: an event created with one slot has its one registration and no
\* slot left, and a further register_for_event was refused for want of slots
C16_Witness ==
    /\ resp.op = "register_for_event" /\ resp.status = 400
    /\ resp.detail = "No slots available for this event"
    /\ \E e \in events :
          /\ e.capacity0 = 1 /\ e.max_participants = 0
          /\ Cardinality(RegistrationsOf(e.id)) = 1

(***************************************************************************)
(* Claims on the token service (SpecToken)                                 *)
(***************************************************************************)

\* C2 (as claimed): a token issued by create_access_token with expires_delta =
\* timedelta(0), or with a negative expires_delta (exp already in the past), is
\* answered 401 by verify_token at every instant at or after issuance.
C2_ZeroTtlTokenRejected ==
    (tk.pc = "verified" /\ tk.origin = "issued" /\ ~tk.ttl.none /\ tk.ttl.minutes <= 0)
        => tk.result.status = 401

\* C10: a token signed with a key other than SECRET_KEY is answered 401 by
\* verify_token, whatever its subject and expiry and whatever the time; and the
\* verdict just given on such a token is a 401.
C10_ForeignKeyRejected ==
    /\ \A sub \in Subjects, e \in ForgedExps :
          verify_token([sub |-> sub, exp |-> now + e, key |-> OtherKey], now).status = 401
    /\ (tk.pc = "verified" /\ tk.tok.key # SECRET_KEY) => tk.result.status = 401

\* C10 witness: a token with a known subject and an expiry in the future,
\* signed with another key, has been presented and refused
C10_Witness ==
    /\ tk.pc = "verified"
    /\ tk.tok.key = OtherKey
    /\ tk.tok.sub \in Emails
    /\ tk.tok.exp > now
    /\ tk.result.status = 401

(***************************************************************************)
(* Claims on the password service (SpecPwd)                                *)
(***************************************************************************)

\* C3 (as claimed): for every password p and either outcome of the primary
\* hasher in get_password_hash, verify_password(p, get_password_hash(p)) is true
\* (the verifier's own library call working).
C3_VerifyAcceptsOwnHash ==
    (pw.pc = "verified" /\ pw.tried = pw.plain /\ pw.verify_ok) => pw.result

\* C11 (as claimed): the string get_password_hash gives to the hashing algorithm
\* (bcrypt, or the fallback digest when bcrypt raises) encodes to at most 72
\* bytes of UTF-8, for every password, multi-byte characters included.
C11_HashInputAtMost72Bytes ==
    pw.pc \in {"hashed", "verified"} => Utf8Len(pw.given) <= BCRYPT_LIMIT

\* C12: when the stored hash is 64 lowercase hex characters, verify_password
\* returns exactly (SHA-256 hex digest of the whole candidate = stored hash) and
\* pwd_context.verify is not called, whatever the candidate, wherever the hash
\* came from and whether or not the bcrypt backend works.
C12_Hex64TakesDigestPathOnly ==
    (pw.pc \in {"verified", "checked"} /\ IsSha256Format(pw.hashed))
       => /\ pw.result = (Sha256Hex(pw.tried) = pw.hashed)
          /\ ~pw.bcrypt_called

\* C12 witness: a candidate of more than 72 bytes was verified against the
\* stored digest of that whole candidate and accepted, bcrypt left alone
C12_Witness ==
    /\ pw.pc = "checked"
    /\ IsSha256Format(pw.hashed)
    /\ Utf8Len(pw.tried) > BCRYPT_LIMIT
    /\ pw.hashed = Sha256Hex(pw.tried)
    /\ pw.result
    /\ ~pw.bcrypt_called

====
